---------------------------- MODULE Spec2Model ----------------------------
(***************************************************************************)
(* Model of utils/registry.py: class Registry, a name -> object mapping    *)
(* with upper-cased keys.  Python values are records tagged with their     *)
(* type; a str is the sequence of its characters, so that str.upper() is   *)
(* computed character by character.  A dict is the sequence of its         *)
(* (key, value) items in insertion order.  Names are built from ASCII      *)
(* letters and a digit, and the assert of _do_register is enabled (the     *)
(* interpreter runs without -O).                                           *)
(***************************************************************************)
EXTENDS Naturals, Sequences, FiniteSets

VARIABLES
    _name,      \* self._name
    _obj_map,   \* self._obj_map, the items in insertion order
    decos,      \* the closures `deco` returned by register() and still held
    ret         \* the last call on the registry and how it ended

vars == <<_name, _obj_map, decos, ret>>

\* How many decorator closures the caller holds at once.
MaxDecos == 2

--------------------------------------------------------------------------
(* Python values *)

None == [type |-> "NoneType"]

Str(chars) == [type |-> "str", s |-> chars]

\* A class (it has a __name__) and an int (it has none).
MyBackbone == [type |-> "type", __name__ |-> Str(<<"A", "b">>)]

FortyTwo == [type |-> "int", value |-> 42]

Objs == {MyBackbone, FortyTwo, None}

\* The names callers pass: case variants of "ab" and of "b1".
Names ==
    { Str(<<"a", "b">>), Str(<<"A", "b">>), Str(<<"A", "B">>),
      Str(<<"b", "1">>), Str(<<"B", "1">>) }

\* What can be bound to the first parameter of register(): a str, the
\* default None, or (passed positionally) the object to register.
ModuleNames == Names \cup {None, MyBackbone}

RegistryNames == {"BACKBONE", "TEST"}

hasattr__name__(obj) == "__name__" \in DOMAIN obj

\* str.upper() on one character.
UpperChar(c) ==
    CASE c = "a" -> "A"
      [] c = "b" -> "B"
      [] OTHER   -> c

\* name.upper()
upper(name) == Str([i \in DOMAIN name.s |-> UpperChar(name.s[i])])

--------------------------------------------------------------------------
(* dict *)

dict_keys(d) == [i \in DOMAIN d |-> d[i][1]]

dict_contains(d, k) == \E i \in DOMAIN d : d[i][1] = k

\* d.get(k): the value bound to k, None when k is absent
dict_get(d, k) ==
    IF dict_contains(d, k)
    THEN d[CHOOSE i \in DOMAIN d : d[i][1] = k][2]
    ELSE None

\* d[k] = v: rebinds k in place, or appends a new item
dict_setitem(d, k, v) ==
    IF dict_contains(d, k)
    THEN [i \in DOMAIN d |-> IF d[i][1] = k THEN <<k, v>> ELSE d[i]]
    ELSE Append(d, <<k, v>>)

--------------------------------------------------------------------------
(* How a call ends, and the mapping it leaves *)

Return(value, obj_map) == [kind |-> "return", value |-> value, obj_map |-> obj_map]

Raise(exc, obj_map) == [kind |-> "raise", value |-> exc, obj_map |-> obj_map]

AttributeError == [type |-> "AttributeError"]

AssertionError(upper_name) ==
    [type |-> "AssertionError", name |-> upper_name, registry |-> _name]

KeyError(upper_name) ==
    [type |-> "KeyError", name |-> upper_name, registry |-> _name,
     keys |-> dict_keys(_obj_map)]

\* The closure register() returns in decorator mode; it captures module_name.
Deco(module_name) == [type |-> "deco", module_name |-> module_name]

--------------------------------------------------------------------------
(* Registry *)

\* _do_register without its assert: a second registration rebinds the key.
_do_register_overwrite(name, obj) ==
    IF name.type # "str"
    THEN Raise(AttributeError, _obj_map)
    ELSE Return(None, dict_setitem(_obj_map, upper(name), obj))

\* _do_register storing under `name` instead of `upper_name`.
_do_register_raw_key(name, obj) ==
    IF name.type # "str"
    THEN Raise(AttributeError, _obj_map)
    ELSE IF dict_contains(_obj_map, upper(name))
    THEN Raise(AssertionError(upper(name)), _obj_map)
    ELSE Return(None, dict_setitem(_obj_map, name, obj))

_do_register(name, obj) ==
    IF name.type # "str"
    THEN Raise(AttributeError, _obj_map)
    ELSE LET upper_name == upper(name) IN
         IF dict_contains(_obj_map, upper_name)
         THEN Raise(AssertionError(upper_name), _obj_map)
         ELSE Return(None, dict_setitem(_obj_map, upper_name, obj))

deco(module_name, func_or_class) ==
    IF module_name = None /\ ~hasattr__name__(func_or_class)
    THEN Raise(AttributeError, _obj_map)
    ELSE LET name == IF module_name # None THEN module_name
                     ELSE func_or_class.__name__
             done == _do_register(name, func_or_class)
         IN  IF done.kind = "raise" THEN done
             ELSE Return(func_or_class, done.obj_map)

\* register checking for a duplicate already when the decorator is asked for.
register_eager_check(module_name, obj) ==
    IF obj = None
    THEN IF module_name.type = "str" /\ dict_contains(_obj_map, upper(module_name))
         THEN Raise(AssertionError(upper(module_name)), _obj_map)
         ELSE Return(Deco(module_name), _obj_map)
    ELSE IF module_name = None /\ ~hasattr__name__(obj)
    THEN Raise(AttributeError, _obj_map)
    ELSE LET name == IF module_name # None THEN module_name ELSE obj.__name__
         IN  _do_register(name, obj)

register(module_name, obj) ==
    IF obj = None
    THEN Return(Deco(module_name), _obj_map)
    ELSE IF module_name = None /\ ~hasattr__name__(obj)
    THEN Raise(AttributeError, _obj_map)
    ELSE LET name == IF module_name # None THEN module_name ELSE obj.__name__
         IN  _do_register(name, obj)

\* get looking `name` up as given, without name.upper().
get_as_given(name) ==
    LET r == dict_get(_obj_map, name) IN
    IF r = None
    THEN Raise(KeyError(name), _obj_map)
    ELSE Return(r, _obj_map)

\* get returning the None of dict.get instead of raising.
get_none_on_miss(name) == Return(dict_get(_obj_map, upper(name)), _obj_map)

get(name) ==
    LET r == dict_get(_obj_map, upper(name)) IN
    IF r = None
    THEN Raise(KeyError(upper(name)), _obj_map)
    ELSE Return(r, _obj_map)

\* __getitem__ indexing the dict with `name` itself: self._obj_map[name].
getitem_plain_index(name) ==
    IF dict_contains(_obj_map, name)
    THEN Return(dict_get(_obj_map, name), _obj_map)
    ELSE Raise([type |-> "KeyError", name |-> name], _obj_map)

__getitem__(name) == get(name)

__str__ == Return([type |-> "str", text |-> <<_name, ":", _obj_map>>], _obj_map)

--------------------------------------------------------------------------
(* The calls as steps *)

Ended(op, out) == [op |-> op, kind |-> out.kind, value |-> out.value]

Init ==
    /\ _name \in RegistryNames
    /\ _obj_map = <<>>
    /\ decos = {}
    /\ ret = [op |-> "__init__", kind |-> "return", value |-> None]

Register(module_name, obj) ==
    LET out == register(module_name, obj) IN
    /\ out.value.type = "deco" =>
          \/ out.value \in decos
          \/ Cardinality(decos) < MaxDecos
    /\ _obj_map' = out.obj_map
    /\ decos' = IF out.value.type = "deco" THEN decos \cup {out.value} ELSE decos
    /\ ret' = Ended("register", out)
    /\ UNCHANGED _name

ApplyDeco(d, func_or_class) ==
    LET out == deco(d.module_name, func_or_class) IN
    /\ d \in decos
    /\ _obj_map' = out.obj_map
    /\ ret' = Ended("deco", out)
    /\ UNCHANGED <<_name, decos>>

Get(name) ==
    LET out == get(name) IN
    /\ _obj_map' = out.obj_map
    /\ ret' = Ended("get", out)
    /\ UNCHANGED <<_name, decos>>

GetItem(name) ==
    LET out == __getitem__(name) IN
    /\ _obj_map' = out.obj_map
    /\ ret' = Ended("__getitem__", out)
    /\ UNCHANGED <<_name, decos>>

ToStr ==
    LET out == __str__ IN
    /\ _obj_map' = out.obj_map
    /\ ret' = Ended("__str__", out)
    /\ UNCHANGED <<_name, decos>>

Next ==
    \/ \E module_name \in ModuleNames, obj \in Objs : Register(module_name, obj)
    \/ \E module_name \in ModuleNames, func_or_class \in Objs :
          ApplyDeco(Deco(module_name), func_or_class)
    \/ \E name \in Names : Get(name)
    \/ \E name \in Names : GetItem(name)
    \/ ToStr

Spec == Init /\ [][Next]_vars

--------------------------------------------------------------------------
(* Vocabulary of the properties *)

\* str.lower() on one character.
LowerChar(c) ==
    CASE c = "A" -> "a"
      [] c = "B" -> "b"
      [] OTHER   -> c

\* The names that differ from `name` only in the case of their letters.
CaseVariants(name) ==
    { v \in Names :
        /\ Len(v.s) = Len(name.s)
        /\ \A i \in DOMAIN v.s : v.s[i] \in {LowerChar(name.s[i]), UpperChar(name.s[i])} }

\* A registration of obj under module_name has a name to register under.
HasRegName(module_name, obj) ==
    \/ module_name \in Names
    \/ module_name = None /\ hasattr__name__(obj)

\* moduleName if given, else the object's intrinsic name.
RegName(module_name, obj) ==
    IF module_name \in Names THEN module_name ELSE obj.__name__

\* The all-capitals form, spelled out.
IsUpperCase(key) == \A i \in DOMAIN key.s : key.s[i] \in {"A", "B", "1"}

\* The step is a call of register() with an object: the direct mode.
DirectCall == ret'.op = "register" /\ ret'.value.type # "deco"

\* The step is the application of a decorator.
DecoCall == ret'.op = "deco"

\* The step added the one item <<key, obj>> and touched nothing else of the mapping.
AddedItem(key, obj) ==
    /\ ~dict_contains(_obj_map, key)
    /\ _obj_map' = Append(_obj_map, <<key, obj>>)

\* The step failed with the duplicate-registration error for key.
FailedAsDuplicate(key) ==
    /\ ret'.kind = "raise"
    /\ ret'.value.type = "AssertionError"
    /\ ret'.value.name = key
    /\ ret'.value.registry = _name
    /\ _obj_map' = _obj_map

--------------------------------------------------------------------------
(* C1 *)

\* C1: once register(name, obj=obj) has succeeded in direct mode, get(v)
\* returns exactly obj for every case variant v of name, and every lookup
\* that returns an object keeps returning that object after any further step.
C1_DirectRegistrationRetrievable ==
    [][ /\ (DirectCall /\ ret'.kind = "return") =>
              \A module_name \in Names \cup {None}, obj \in Objs \ {None} :
                  (HasRegName(module_name, obj) /\ Register(module_name, obj))
                  => \A v \in CaseVariants(RegName(module_name, obj)) :
                         (get(v))' = Return(obj, _obj_map')
        /\ (_obj_map' # _obj_map \/ _name' # _name) =>
              \A v \in Names :
                  get(v).kind = "return"
                  => /\ (get(v))'.kind = "return"
                     /\ (get(v))'.value = get(v).value
      ]_vars

\* "ab" was registered by a direct call with 42 and both "ab" and "AB" find it.
C1_Witness ==
    /\ ret = [op |-> "register", kind |-> "return", value |-> None]
    /\ _obj_map = << <<Str(<<"A", "B">>), FortyTwo>> >>
    /\ get(Str(<<"a", "b">>)).value = FortyTwo
    /\ get(Str(<<"A", "B">>)).value = FortyTwo

--------------------------------------------------------------------------
(* C2 *)

\* C2 (as claimed): a registration, direct or by decorator, of a name whose
\* upper-case form is already a key fails with the duplicate error, leaves the
\* mapping unchanged, and the first registration is then retrievable: get of
\* the name returns the object bound to the key.
C2_DuplicateFailsFirstRetrievable ==
    [][ /\ DirectCall => \A module_name \in Names \cup {None}, obj \in Objs \ {None} :
              ( /\ HasRegName(module_name, obj)
                /\ dict_contains(_obj_map, upper(RegName(module_name, obj)))
                /\ Register(module_name, obj) )
              => /\ FailedAsDuplicate(upper(RegName(module_name, obj)))
                 /\ (get(RegName(module_name, obj)))' =
                       Return(dict_get(_obj_map, upper(RegName(module_name, obj))), _obj_map)
        /\ DecoCall => \A d \in decos, func_or_class \in Objs :
              ( /\ HasRegName(d.module_name, func_or_class)
                /\ dict_contains(_obj_map, upper(RegName(d.module_name, func_or_class)))
                /\ ApplyDeco(d, func_or_class) )
              => /\ FailedAsDuplicate(upper(RegName(d.module_name, func_or_class)))
                 /\ (get(RegName(d.module_name, func_or_class)))' =
                       Return(dict_get(_obj_map, upper(RegName(d.module_name, func_or_class))),
                              _obj_map)
      ]_vars

\* The part of C2 that does not depend on get: the second registration fails
\* with the duplicate error and the mapping, hence the first binding, is as before.
C2_DuplicateRejected ==
    [][ /\ DirectCall => \A module_name \in Names \cup {None}, obj \in Objs \ {None} :
              ( /\ HasRegName(module_name, obj)
                /\ dict_contains(_obj_map, upper(RegName(module_name, obj)))
                /\ Register(module_name, obj) )
              => FailedAsDuplicate(upper(RegName(module_name, obj)))
        /\ DecoCall => \A d \in decos, func_or_class \in Objs :
              ( /\ HasRegName(d.module_name, func_or_class)
                /\ dict_contains(_obj_map, upper(RegName(d.module_name, func_or_class)))
                /\ ApplyDeco(d, func_or_class) )
              => FailedAsDuplicate(upper(RegName(d.module_name, func_or_class)))
      ]_vars

--------------------------------------------------------------------------
(* C3 *)

\* C3 (as claimed): for every name whose upper-case form is a key of the
\* mapping, get(name) returns the reference stored under that key and raises
\* nothing, whatever a successful registration stored there.
C3_GetReturnsStored ==
    \A name \in Names :
        dict_contains(_obj_map, upper(name))
        => get(name) = Return(dict_get(_obj_map, upper(name)), _obj_map)

--------------------------------------------------------------------------
(* C4 *)

\* C4 (as claimed): the call register(MyBackbone), the object being the only
\* positional argument, leaves MyBackbone registered under the upper-case
\* form of its own name, and get of that name returns it.
C4_PositionalRegisters ==
    [][ Register(MyBackbone, None)
        => /\ dict_get(_obj_map', upper(MyBackbone.__name__)) = MyBackbone
           /\ (get(MyBackbone.__name__))' = Return(MyBackbone, _obj_map')
      ]_vars

--------------------------------------------------------------------------
(* C5 *)

\* C5 (as claimed): applying a decorator obtained from register(moduleName)
\* to a target whose name is not yet registered returns the target, adds the
\* item (upper-case name, target), the name being moduleName if given and the
\* target's own name otherwise, and get of every case variant of the name
\* then returns the target.
C5_DecoratorRegisters ==
    [][ DecoCall => \A d \in decos, func_or_class \in Objs :
            ( /\ HasRegName(d.module_name, func_or_class)
              /\ ~dict_contains(_obj_map, upper(RegName(d.module_name, func_or_class)))
              /\ ApplyDeco(d, func_or_class) )
            => /\ ret'.kind = "return"
               /\ ret'.value = func_or_class
               /\ AddedItem(upper(RegName(d.module_name, func_or_class)), func_or_class)
               /\ \A v \in CaseVariants(RegName(d.module_name, func_or_class)) :
                      (get(v))' = Return(func_or_class, _obj_map')
      ]_vars

--------------------------------------------------------------------------
(* C6 *)

\* C6: get of a name whose upper-case form is no key of the mapping raises
\* KeyError, and the error carries the upper-case name, the registry's name
\* and all the keys of the mapping.
C6_MissRaisesKeyError ==
    \A name \in Names :
        ~dict_contains(_obj_map, upper(name))
        => /\ get(name).kind = "raise"
           /\ get(name).value.type = "KeyError"
           /\ get(name).value.name = upper(name)
           /\ get(name).value.registry = _name
           /\ get(name).value.keys = dict_keys(_obj_map)
           /\ get(name).obj_map = _obj_map

\* get("b1") has just failed in a registry that holds only the key "AB".
C6_Witness ==
    /\ ret.op = "get"
    /\ ret.kind = "raise"
    /\ ret.value.type = "KeyError"
    /\ ret.value.name = Str(<<"B", "1">>)
    /\ ret.value.keys = << Str(<<"A", "B">>) >>
    /\ dict_keys(_obj_map) = << Str(<<"A", "B">>) >>

--------------------------------------------------------------------------
(* C7 *)

\* C7: registry[name] ends as registry.get(name) does, for every name and in
\* every state: the same reference returned or the same error raised, and the
\* same (unchanged) mapping left behind.
C7_IndexIsGet ==
    \A name \in Names :
        /\ __getitem__(name) = get(name)
        /\ __getitem__(name).obj_map = _obj_map

\* registry[...] has just returned an object while another name is missing.
C7_Witness ==
    /\ ret.op = "__getitem__"
    /\ ret.kind = "return"
    /\ ret.value = MyBackbone
    /\ \E name \in Names : __getitem__(name).kind = "raise"

--------------------------------------------------------------------------
(* C8 *)

\* C8: every step leaves the registry's name alone and either leaves the
\* mapping unchanged or is a successful registration appending one item with
\* a new key; get, indexing, string conversion and every failed call leave
\* the mapping unchanged.
C8_MappingOnlyGrows ==
    [][ /\ _name' = _name
        /\ \/ _obj_map' = _obj_map
           \/ /\ ret'.op \in {"register", "deco"}
              /\ ret'.kind = "return"
              /\ Len(_obj_map') = Len(_obj_map) + 1
              /\ SubSeq(_obj_map', 1, Len(_obj_map)) = _obj_map
              /\ ~dict_contains(_obj_map, _obj_map'[Len(_obj_map')][1])
        /\ ( \/ ret'.op \in {"get", "__getitem__", "__str__"}
             \/ ret'.kind = "raise" )
           => _obj_map' = _obj_map
      ]_vars

\* Two registrations have succeeded and the registry was then printed.
C8_Witness ==
    /\ Len(_obj_map) = 2
    /\ ret.op = "__str__"

--------------------------------------------------------------------------
(* C9 *)

\* C9: after every step all keys of the mapping are in upper case, no two
\* items have keys with the same upper-case form, and a key added by a
\* registration is the upper-case form of the name registered.
C9_KeysNormalized ==
    [][ /\ \A i \in DOMAIN _obj_map' : IsUpperCase(_obj_map'[i][1])
        /\ \A i, j \in DOMAIN _obj_map' :
              upper(_obj_map'[i][1]) = upper(_obj_map'[j][1]) => i = j
        /\ (DirectCall /\ _obj_map' # _obj_map) =>
           \A module_name \in Names \cup {None}, obj \in Objs \ {None} :
              ( /\ HasRegName(module_name, obj)
                /\ Register(module_name, obj) )
              => _obj_map'[Len(_obj_map')][1] = upper(RegName(module_name, obj))
        /\ (DecoCall /\ _obj_map' # _obj_map) =>
           \A d \in decos, func_or_class \in Objs :
              ( /\ HasRegName(d.module_name, func_or_class)
                /\ ApplyDeco(d, func_or_class) )
              => _obj_map'[Len(_obj_map')][1] = upper(RegName(d.module_name, func_or_class))
      ]_vars

\* Both keys are taken and a registration of "ab" has just been refused.
C9_Witness ==
    /\ dict_keys(_obj_map) = << Str(<<"B", "1">>), Str(<<"A", "B">>) >>
    /\ ret.kind = "raise"
    /\ ret.value.type = "AssertionError"
    /\ ret.value.name = Str(<<"A", "B">>)

--------------------------------------------------------------------------
(* C10 *)

\* C10: register(moduleName) with no object always returns a decorator and
\* neither changes the mapping nor looks at it; the name is checked and
\* inserted when the decorator is applied: the application fails as a
\* duplicate, changing nothing, exactly when the upper-case name is already a
\* key, and otherwise appends the item and returns the target.
C10_DecoratorChecksWhenApplied ==
    [][ /\ \A module_name \in ModuleNames :
              register(module_name, None) = Return(Deco(module_name), _obj_map)
        /\ DecoCall => \A d \in decos, func_or_class \in Objs :
              ( /\ HasRegName(d.module_name, func_or_class)
                /\ ApplyDeco(d, func_or_class) )
              => IF dict_contains(_obj_map, upper(RegName(d.module_name, func_or_class)))
                 THEN FailedAsDuplicate(upper(RegName(d.module_name, func_or_class)))
                 ELSE /\ AddedItem(upper(RegName(d.module_name, func_or_class)), func_or_class)
                      /\ ret'.kind = "return"
                      /\ ret'.value = func_or_class
      ]_vars

\* Decorators for "ab" and for "Ab" are both held, the key "AB" is bound to
\* the class, and the last application of a decorator failed as a duplicate.
C10_Witness ==
    /\ decos = {Deco(Str(<<"a", "b">>)), Deco(Str(<<"A", "b">>))}
    /\ _obj_map = << <<Str(<<"A", "B">>), MyBackbone>> >>
    /\ ret.op = "deco"
    /\ ret.kind = "raise"
    /\ ret.value.type = "AssertionError"

=============================================================================
